---- MODULE Spec2Model ----
(***************************************************************************)
(* Child-process supervision of feltjs/util (src/lib/process.ts and the    *)
(* older copy of the same module at the end of src/lib/fetch.ts), and the  *)
(* cached fetch helpers fetch_value (src/lib/fetch.ts) and fetch_data (the *)
(* older fetch module).                                                    *)
(*                                                                         *)
(* The host is a single-threaded event loop.  A task (a user call or a     *)
(* child's close event) runs to completion, then the microtask queue is    *)
(* drained in FIFO order.  Promises, their reactions and the continuations *)
(* of the async functions are modelled explicitly, one microtask per       *)
(* await, so that the order in which continuations run is the order the    *)
(* engine gives them.                                                      *)
(***************************************************************************)
EXTENDS Integers, Sequences, FiniteSets, TLC

\* ---- bounds of the exploration ----
MaxCalls == 3         \* restart() and kill() calls made by the client
MaxFatal == 1         \* fatal errors of the host
MaxSpawns == 2        \* direct spawn_process calls made by the client
MaxDespawns == 2      \* direct despawn and despawn_all calls made by the client
MaxOuts == 2          \* spawn_out calls made by the client
MaxChunks == 2        \* chunks the children write to their pipes, in total
MaxFetches == 2       \* fetch_value or fetch_data calls made by the client
MaxTime == 3          \* minutes that pass while fetch_data calls are made
MaxItems == 2         \* items of a cache that is saved
MaxSaves == 1         \* serialize_cache calls
MaxRegisters == 3     \* direct register_global_spawn calls and calls of the functions they returned

VARIABLES
    children,      \* every ChildProcess created so far, by creation order
    global_spawn,  \* the registry: a Set, kept in insertion order
    promises,      \* every promise created so far
    microtasks,    \* the engine's microtask queue
    spawned,       \* Restartable: `spawned` (0 is null, else a child)
    restarting,    \* Restartable: `restarting` (0 is null, else a promise)
    log,           \* what was written with log.error
    created,       \* spawn_restartable_process has returned
    running,       \* client code is on the stack with microtasks waiting behind it
    exited,        \* process.exit(1) was called
    calls,         \* history: the client's restart()/kill() calls
    despawns,      \* history: the client's despawn() calls
    drains,        \* history: despawn_all() calls and fatal-error paths
    regs,          \* history: direct register_global_spawn calls and calls of the returned functions
    outs,          \* history: the client's spawn_out() calls
    cache,         \* the Fetch_Cache_Data map the client passes as `cache`
    fetches,       \* every fetch call: the locals of its invocation, and what it did
    ratelimit_remaining,  \* fetch_data: module variable, null or a number
    ratelimit_reset,      \* fetch_data: module variable, null or a time
    now,           \* the clock, in minutes
    saves          \* history: the texts serialize_cache returned and the maps read back

vars == <<children, global_spawn, promises, microtasks, spawned, restarting,
          log, created, running, exited, calls, despawns, drains, regs, outs,
          cache, fetches, ratelimit_remaining, ratelimit_reset, now, saves>>

\* the variables of the process module and those of the fetch module
ProcVars == <<children, global_spawn, promises, microtasks, spawned, restarting,
              log, created, running, exited, calls, despawns, drains, regs, outs>>
FetchVars == <<cache, fetches, ratelimit_remaining, ratelimit_reset, now, saves>>
RateVars == <<ratelimit_remaining, ratelimit_reset, now>>

\* ---- values ----
Null == <<>>                      \* null: an absent exit code or signal
Some(x) == <<x>>
Undefined == [kind |-> "undefined", items |-> <<>>]
Res(r) == [kind |-> "result", items |-> <<r>>]
Arr(rs) == [kind |-> "array", items |-> rs]
Out(o) == [kind |-> "out", items |-> <<o>>]

\* what a close event can report: (code, signal)
CloseReports == {<<Some(0), Null>>, <<Some(1), Null>>, <<Null, Some("SIGTERM")>>, <<Null, Null>>}
\* the reports explored where the outcome does not steer the code
SomeReports == {<<Some(1), Null>>, <<Null, Some("SIGTERM")>>}

\* JavaScript truthiness of `code` (number | null)
Truthy(code) == code # Null /\ code[1] # 0

RECURSIVE SeqRemove(_, _)
SeqRemove(q, x) ==
    IF q = <<>> THEN <<>>
    ELSE IF Head(q) = x THEN SeqRemove(Tail(q), x)
    ELSE <<Head(q)>> \o SeqRemove(Tail(q), x)

SeqHas(q, x) == \E i \in 1..Len(q) : q[i] = x

RECURSIVE SumKills(_)
SumKills(cs) == IF cs = <<>> THEN 0 ELSE Head(cs).kills + SumKills(Tail(cs))

\* an Error object, and `new Error(v)`
AnError == [isError |-> TRUE, message |-> "boom"]
NoError == [isError |-> FALSE, message |-> ""]
NewError(v) == [isError |-> TRUE, message |-> v]

\* logger.error(...): the entry keeps the label of the logger, the error that
\* was printed, and how many signals had been sent to children before it
Logged(s, msg, label, err) ==
    [s EXCEPT !.log = Append(@, [msg |-> msg, label |-> label, err |-> err,
                                 sent |-> SumKills(s.children)])]

\* ---- the machine state as one record, threaded through the code ----
St == [children |-> children, global_spawn |-> global_spawn, promises |-> promises,
       microtasks |-> microtasks, spawned |-> spawned, restarting |-> restarting,
       log |-> log, exited |-> exited, ret |-> 0]

Job(type, p, q) == [type |-> type, p |-> p, q |-> q, arg |-> Undefined]

\* new Promise(...): the id of the new promise is left in `ret`
NewPromise(s) ==
    [s EXCEPT !.promises = Append(@, [state |-> "pending", value |-> Undefined,
                                      reactions |-> <<>>, remaining |-> 0, elems |-> <<>>]),
              !.ret = Len(s.promises) + 1]

RECURSIVE WithArg(_, _)
WithArg(jobs, v) ==
    IF jobs = <<>> THEN <<>>
    ELSE <<[Head(jobs) EXCEPT !.arg = v]>> \o WithArg(Tail(jobs), v)

\* resolve(v) with a value that is not a thenable: fulfils the promise and
\* queues its reactions; a second resolve of the same promise does nothing
Resolve(s, p, v) ==
    IF s.promises[p].state # "pending" THEN s
    ELSE [s EXCEPT !.promises[p] = [@ EXCEPT !.state = "fulfilled", !.value = v, !.reactions = <<>>],
                   !.microtasks = @ \o WithArg(s.promises[p].reactions, v)]

\* promise.then(job) / await promise: one microtask once the promise is fulfilled
Then(s, p, job) ==
    IF s.promises[p].state = "pending"
    THEN [s EXCEPT !.promises[p].reactions = Append(@, job)]
    ELSE [s EXCEPT !.microtasks = Append(@, [job EXCEPT !.arg = s.promises[p].value])]

\* ---- src/lib/process.ts ----

\* an unregister that deletes without reporting a handle that is absent
unregister_silent(s, c) ==
    [s EXCEPT !.global_spawn = SeqRemove(@, c)]

\* the function returned by register_global_spawn
unregister(s, c) ==
    LET s1 == IF ~SeqHas(s.global_spawn, c)
              THEN Logged(s, "spawn not registered", "process", NoError)
              ELSE s
    IN [s1 EXCEPT !.global_spawn = SeqRemove(@, c)]

\* a register_global_spawn on a list instead of a Set
register_global_spawn_push(s, c) ==
    LET s1 == IF SeqHas(s.global_spawn, c)
              THEN Logged(s, "already registered global spawn", "process", NoError)
              ELSE s
    IN [s1 EXCEPT !.global_spawn = Append(@, c)]

\* register_global_spawn: Set.add keeps a member once, at its first position
register_global_spawn(s, c) ==
    LET s1 == IF SeqHas(s.global_spawn, c)
              THEN Logged(s, "already registered global spawn", "process", NoError)
              ELSE s
    IN [s1 EXCEPT !.global_spawn = IF SeqHas(@, c) THEN @ ELSE Append(@, c)]

\* a Spawn_Result that tests `code !== null` where the code tests `code`
to_spawn_result_nonnull(c, code, signal) ==
    IF code # Null
    THEN [ok |-> FALSE, child |-> c, code |-> code, signal |-> signal]
    ELSE [ok |-> TRUE, child |-> c, code |-> code, signal |-> signal]

\* the Spawn_Result built by the close listeners
to_spawn_result(c, code, signal) ==
    IF Truthy(code)
    THEN [ok |-> FALSE, child |-> c, code |-> code, signal |-> signal]
    ELSE [ok |-> TRUE, child |-> c, code |-> code, signal |-> signal]

\* spawn_process: the id of the new child is left in `ret`
spawn_process(s, byRestartable) ==
    LET s1 == NewPromise(s)
        closed == s1.ret
        c == Len(s.children) + 1
        s2 == [s1 EXCEPT !.children = Append(@, [live |-> TRUE, kills |-> 0, closed |-> closed,
                                                 listeners |-> <<[type |-> "spawn_process", p |-> closed]>>,
                                                 rp |-> byRestartable, unregistered |-> 0,
                                                 stdio |-> "inherit", chunks |-> <<>>,
                                                 capture |-> FALSE, stdout |-> Null, stderr |-> Null,
                                                 exitCode |-> Null, signalCode |-> Null])]
        s3 == register_global_spawn(s2, c)
    IN [s3 EXCEPT !.ret = c]

\* spawn_out up to its await: the id of its own promise is left in `ret`.
\* `stdout` and `stderr` of the child record are the variables of its closure.
spawn_out(s) ==
    LET s1 == NewPromise(s)
        own == s1.ret
        s2 == spawn_process(s1, FALSE)
        c == s2.ret
        s3 == [s2 EXCEPT !.children[c].stdio = "pipe", !.children[c].capture = TRUE]
        s4 == Then(s3, s3.children[c].closed, Job("spawn_out_cont", own, c))
    IN [s4 EXCEPT !.ret = own]

\* spawn_out of the older module: spawn_process(...args).closed
spawn_out_old(s) ==
    LET s1 == spawn_process(s, FALSE)
    IN [s1 EXCEPT !.ret = s1.children[s1.ret].closed]

\* the rest of spawn_out after `await closed`
spawn_out_cont(s, own, c, result) ==
    Resolve(s, own, Out([result |-> result, stdout |-> s.children[c].stdout,
                                            stderr |-> s.children[c].stderr]))

\* `(x ?? '') + data.toString()`, texts being sequences of characters
Plus(x, data) == Some((IF x = Null THEN <<>> ELSE x[1]) \o data)

\* a 'data' event of child.stdout or child.stderr
on_data(s, c, stream, data) ==
    LET s1 == [s EXCEPT !.children[c].chunks = Append(@, [stream |-> stream, data |-> data])]
    IN IF ~s1.children[c].capture THEN s1
       ELSE IF stream = "stdout"
       THEN [s1 EXCEPT !.children[c].stdout = Plus(@, data)]
       ELSE [s1 EXCEPT !.children[c].stderr = Plus(@, data)]

\* child.kill(): a signal is sent only to a process that has not exited
child_kill(s, c) ==
    IF s.children[c].live THEN [s EXCEPT !.children[c].kills = @ + 1] ELSE s

\* a close listener of spawn_process that resolves without calling unregister()
RunListener_no_unregister(s, c, l, code, signal) ==
    Resolve(s, l.p, Res(to_spawn_result(c, code, signal)))

\* one listener of the close event
RunListener(s, c, l, code, signal) ==
    IF l.type = "spawn_process"
    THEN LET s1 == unregister(s, c)
             s2 == [s1 EXCEPT !.children[c].unregistered = @ + 1]
         IN Resolve(s2, l.p, Res(to_spawn_result(c, code, signal)))
    ELSE Resolve(s, l.p, Res(to_spawn_result(c, code, signal)))

RECURSIVE RunListeners(_, _, _, _, _)
RunListeners(s, c, ls, code, signal) ==
    IF ls = <<>> THEN s
    ELSE RunListeners(RunListener(s, c, Head(ls), code, signal), c, Tail(ls), code, signal)

\* the child's close event: every `once` listener runs, in the order it was added
emit_close(s, c, code, signal) ==
    LET s1 == [s EXCEPT !.children[c] = [@ EXCEPT !.live = FALSE, !.listeners = <<>>,
                                                  !.exitCode = code, !.signalCode = signal]]
    IN RunListeners(s1, c, s.children[c].listeners, code, signal)

\* a despawn that also deletes the child from the registry
despawn_unregisters(s, c) ==
    LET s1 == NewPromise(s)
        closed == s1.ret
        s2 == IF s1.children[c].live
              THEN [s1 EXCEPT !.children[c].listeners = Append(@, [type |-> "despawn", p |-> closed])]
              ELSE s1
        s3 == child_kill(s2, c)
    IN [s3 EXCEPT !.global_spawn = SeqRemove(@, c), !.ret = closed]

\* a despawn that waits for the close without calling child.kill()
despawn_no_kill(s, c) ==
    LET s1 == NewPromise(s)
        closed == s1.ret
        s2 == IF s1.children[c].live
              THEN [s1 EXCEPT !.children[c].listeners = Append(@, [type |-> "despawn", p |-> closed])]
              ELSE s1
    IN [s2 EXCEPT !.ret = closed]

\* despawn: the id of the returned promise is left in `ret`
\* a despawn whose promise, for a child that has closed, resolves at once with
\* the value of the child's `closed`
despawn_resolves_closed(s, c) ==
    LET s1 == NewPromise(s)
        closed == s1.ret
        s2 == IF s1.children[c].live
              THEN [s1 EXCEPT !.children[c].listeners = Append(@, [type |-> "despawn", p |-> closed])]
              ELSE Resolve(s1, closed, s1.promises[s1.children[c].closed].value)
        s3 == child_kill(s2, c)
    IN [s3 EXCEPT !.ret = closed]

despawn(s, c) ==
    LET s1 == NewPromise(s)
        closed == s1.ret
        s2 == IF s1.children[c].live
              THEN [s1 EXCEPT !.children[c].listeners = Append(@, [type |-> "despawn", p |-> closed])]
              ELSE s1    \* the close event has been emitted: a new `once` listener never runs
        s3 == child_kill(s2, c)
    IN [s3 EXCEPT !.ret = closed]

\* Array.from(global_spawn, (child) => despawn(child)): `ret` collects the promises
RECURSIVE DespawnEach(_, _, _)
DespawnEach(s, cs, acc) ==
    IF cs = <<>> THEN [s EXCEPT !.ret = acc]
    ELSE LET s1 == despawn(s, Head(cs))
         IN DespawnEach(s1, Tail(cs), Append(acc, s1.ret))

RECURSIVE ThenEach(_, _, _, _)
ThenEach(s, ps, pa, i) ==
    IF i > Len(ps) THEN s
    ELSE ThenEach(Then(s, ps[i], Job("all_element", pa, i)), ps, pa, i + 1)

\* Promise.all(ps): the id of the returned promise is left in `ret`
promise_all(s, ps) ==
    LET s1 == NewPromise(s)
        pa == s1.ret
        s2 == IF ps = <<>>
              THEN Resolve(s1, pa, Arr(<<>>))
              ELSE ThenEach([s1 EXCEPT !.promises[pa].remaining = Len(ps),
                                       !.promises[pa].elems = [i \in 1..Len(ps) |-> Undefined]],
                            ps, pa, 1)
    IN [s2 EXCEPT !.ret = pa]

\* a despawn_all that despawns only the first registered child
despawn_all_first_only(s) ==
    LET s1 == DespawnEach(s, IF s.global_spawn = <<>> THEN <<>> ELSE <<Head(s.global_spawn)>>, <<>>)
    IN promise_all(s1, s1.ret)

\* despawn_all(): the id of the returned promise is left in `ret`
despawn_all(s) ==
    LET s1 == DespawnEach(s, s.global_spawn, <<>>)
    IN promise_all(s1, s1.ret)

\* a handle_fatal_error that logs the error after it has signalled the children
handle_fatal_error_log_last(s, err, label, old) ==
    LET s1 == NewPromise(s)
        own == s1.ret
        s2 == despawn_all(s1)
        s3 == Logged(s2, "fatal", label, err)
        s4 == Then(s3, s2.ret, Job(IF old THEN "fatal_exit" ELSE "fatal_cont", own, s2.ret))
    IN [s4 EXCEPT !.ret = own]

\* handle_fatal_error up to its await: the id of its own promise is left in `ret`.
\* `old` selects handleFatalError of the older module, which exits afterwards.
handle_fatal_error(s, err, label, old) ==
    LET s1 == NewPromise(s)
        own == s1.ret
        s2 == Logged(s1, "fatal", label, err)
        s3 == despawn_all(s2)
        s4 == Then(s3, s3.ret, Job(IF old THEN "fatal_exit" ELSE "fatal_cont", own, s3.ret))
    IN [s4 EXCEPT !.ret = own]

\* to_error_label?.(err) ?? 'unhandledRejection'; the older module has `||`,
\* which differs only for an empty label
to_label(to_error_label, old) ==
    IF to_error_label = Null \/ (old /\ to_error_label = Some(""))
    THEN "unhandledRejection"
    ELSE to_error_label[1]

\* handle_unhandled_rejection: a rejection value that is not an Error is wrapped
handle_unhandled_rejection(s, err, to_error_label, old) ==
    IF err.isError
    THEN handle_fatal_error(s, err, to_label(to_error_label, old), old)
    ELSE handle_fatal_error(s, NewError(err.message), to_label(to_error_label, old), old)

\* ---- spawn_restartable_process ----

\* a close() that awaits despawn(child) where the code awaits spawned.closed
close_despawns(s) ==
    LET s1 == NewPromise(s)
        own == s1.ret
    IN IF s1.spawned = 0
       THEN [Resolve(s1, own, Undefined) EXCEPT !.ret = own]
       ELSE LET s2 == despawn(s1, s1.spawned)
                s3 == [s2 EXCEPT !.restarting = s2.ret, !.spawned = 0]
                s4 == Then(s3, s3.restarting, Job("close_cont", own, 0))
            IN [s4 EXCEPT !.ret = own]

\* close() up to its await: the id of its own promise is left in `ret`
close(s) ==
    LET s1 == NewPromise(s)
        own == s1.ret
    IN IF s1.spawned = 0
       THEN [Resolve(s1, own, Undefined) EXCEPT !.ret = own]
       ELSE LET c == s1.spawned
                s2 == [s1 EXCEPT !.restarting = s1.children[c].closed]
                s3 == child_kill(s2, c)
                s4 == [s3 EXCEPT !.spawned = 0]
                s5 == Then(s4, s4.restarting, Job("close_cont", own, 0))
            IN [s5 EXCEPT !.ret = own]

\* the rest of close() after `await restarting`
close_cont(s, own) ==
    Resolve([s EXCEPT !.restarting = 0], own, Undefined)

\* the last statement of restart(): spawned = spawn_process(...)
restart_spawn(s, own) ==
    LET s1 == spawn_process(s, TRUE)
        s2 == [s1 EXCEPT !.spawned = s1.ret]
    IN Resolve(s2, own, Undefined)

\* restart() with `await close()` where the code has `if (spawned) await close()`
restart_always_awaits(s) ==
    LET s1 == NewPromise(s)
        own == s1.ret
    IN IF s1.restarting # 0
       THEN [s1 EXCEPT !.microtasks = Append(@, Job("thenable", own, s1.restarting)), !.ret = own]
       ELSE LET s2 == close(s1)
                s3 == Then(s2, s2.ret, Job("restart_cont", own, 0))
            IN [s3 EXCEPT !.ret = own]

\* restart() without `if (restarting) return restarting`
restart_no_coalesce(s) ==
    LET s1 == NewPromise(s)
        own == s1.ret
    IN IF s1.spawned # 0
       THEN LET s2 == close(s1)
                s3 == Then(s2, s2.ret, Job("restart_cont", own, 0))
            IN [s3 EXCEPT !.ret = own]
       ELSE [restart_spawn(s1, own) EXCEPT !.ret = own]

\* restart() up to its first await or its return
restart(s) ==
    LET s1 == NewPromise(s)
        own == s1.ret
    IN IF s1.restarting # 0
       THEN \* return restarting: the returned promise adopts `restarting` in a later microtask
            [s1 EXCEPT !.microtasks = Append(@, Job("thenable", own, s1.restarting)), !.ret = own]
       ELSE IF s1.spawned # 0
       THEN LET s2 == close(s1)
                s3 == Then(s2, s2.ret, Job("restart_cont", own, 0))
            IN [s3 EXCEPT !.ret = own]
       ELSE [restart_spawn(s1, own) EXCEPT !.ret = own]

\* kill() that calls close() without awaiting it
kill_close_no_await(s, own) ==
    LET s1 == close(s)
    IN Resolve(s1, own, Undefined)

\* the part of kill() from `await close()` on
kill_close(s, own) ==
    LET s1 == close(s)
    IN Then(s1, s1.ret, Job("kill_done", own, 0))

\* kill() up to its first await
kill(s) ==
    LET s1 == NewPromise(s)
        own == s1.ret
    IN IF s1.restarting # 0
       THEN [Then(s1, s1.restarting, Job("kill_cont", own, 0)) EXCEPT !.ret = own]
       ELSE [kill_close(s1, own) EXCEPT !.ret = own]

\* one element of Promise.all has been fulfilled
all_element(s, pa, i, v) ==
    LET s1 == [s EXCEPT !.promises[pa].elems[i] = v,
                        !.promises[pa].remaining = @ - 1]
    IN IF s1.promises[pa].remaining = 0
       THEN Resolve(s1, pa, Arr([k \in 1..Len(s1.promises[pa].elems) |-> s1.promises[pa].elems[k].items[1]]))
       ELSE s1

\* ---- src/lib/fetch.ts: fetch_value ----

\* texts are sequences of pieces, and `+` on texts is concatenation
CACHE_KEY_SEPARATOR == <<"::">>

\* JSON.stringify(params) as it appears in a concatenation; params is
\* "undefined", "null" or the name of an object
Json(params) ==
    IF params = "undefined" THEN <<"undefined">>
    ELSE IF params = "null" THEN <<"null">>
    ELSE <<"{", params, "}">>

to_fetch_cache_key(url, params, method) ==
    method \o CACHE_KEY_SEPARATOR \o url \o CACHE_KEY_SEPARATOR \o Json(params)

\* new URL(url).href: a url without a path gets the path "/"
Href(url) == IF url[Len(url)] = "/" THEN url ELSE url \o <<"/">>

\* a Map: get, set and the empty map
EmptyMap == [k \in {} |-> Null]
Get(m, k) == IF k \in DOMAIN m THEN Some(m[k]) ELSE Null
Set(m, k, v) == [x \in DOMAIN m \cup {k} |-> IF x = k THEN v ELSE m[x]]

\* the conditional headers of a request, null when absent
NoHeaders == [if_none_match |-> Null, if_modified_since |-> Null]

\* how a call ends: it returns data, returns a failure Result, or throws
Value(data) == [kind |-> "value", value |-> data]
Failed(status, message) == [kind |-> "failure", status |-> status, message |-> message]
Throw(message) == [kind |-> "throw", message |-> message]

\* Response.ok
Ok(status) == status >= 200 /\ status <= 299

\* fetch_value up to `await fetch(req)`, or to its early return: the locals of
\* the invocation
fetch_value(m, url, params, request_headers, use_cache, early) ==
    LET href == Href(url)
        method == IF params \in {"undefined", "null"} THEN <<"GET">> ELSE <<"POST">>
        key == IF use_cache THEN Some(to_fetch_cache_key(href, params, method)) ELSE Null
        cached == IF use_cache THEN Get(m, key[1]) ELSE Null
        etag == IF cached = Null THEN Null ELSE cached[1].etag
        last_modified == IF cached = Null THEN Null ELSE cached[1].last_modified
        headers == IF etag # Null /\ request_headers.if_none_match = Null
                   THEN [request_headers EXCEPT !.if_none_match = etag]
                   ELSE IF last_modified # Null /\ request_headers.if_modified_since = Null
                   THEN [request_headers EXCEPT !.if_modified_since = last_modified]
                   ELSE request_headers
        call == [fn |-> "fetch_value", url |-> url, params |-> params,
                 request_headers |-> request_headers, use_cache |-> use_cache, early |-> early,
                 href |-> href, key |-> key, cached |-> cached, headers |-> NoHeaders,
                 stage |-> "done", requested |-> FALSE, res |-> Null, outcome |-> Null,
                 before |-> m, stored |-> Null, after |-> Null]
    IN IF use_cache /\ early /\ cached # Null
       THEN [call EXCEPT !.outcome = Value(cached[1].data)]
       ELSE [call EXCEPT !.headers = headers, !.stage = "fetching", !.requested = TRUE]

\* a fetch_value that tests `res.status === 429` after `!res.ok`
fetch_value_fetched_ok_first(call, res) ==
    IF res = Null
    THEN [call EXCEPT !.stage = "done", !.outcome = Throw("network error")]
    ELSE IF ~Ok(res[1].status)
    THEN [call EXCEPT !.stage = "done", !.res = res,
                      !.outcome = Failed(res[1].status, res[1].statusText)]
    ELSE [call EXCEPT !.stage = "reading", !.res = res]

\* fetch_value from the settling of fetch(req) to its next await or its end;
\* res is null when fetch rejected
fetch_value_fetched(call, res) ==
    IF res = Null
    THEN [call EXCEPT !.stage = "done", !.outcome = Throw("network error")]
    ELSE IF res[1].status = 429
    THEN [call EXCEPT !.stage = "done", !.res = res, !.outcome = Throw("ratelimited")]
    ELSE IF ~Ok(res[1].status)
    THEN [call EXCEPT !.stage = "done", !.res = res,
                      !.outcome = Failed(res[1].status, res[1].statusText)]
    ELSE IF res[1].status = 304
    THEN IF call.cached = Null
         THEN [call EXCEPT !.stage = "done", !.res = res, !.outcome = Throw("unexpected 304")]
         ELSE [call EXCEPT !.stage = "done", !.res = res, !.outcome = Value(call.cached[1].data)]
    ELSE [call EXCEPT !.stage = "reading", !.res = res]

\* the Fetch_Cache_Item fetch_value stores
fetch_value_item(call) ==
    [key |-> call.key[1], url |-> call.href, params |-> call.params,
     data |-> call.res[1].data, etag |-> call.res[1].etag,
     last_modified |-> IF call.res[1].etag # Null THEN Null ELSE call.res[1].last_modified]

\* a fetch_value that stores its item under the url
fetch_value_read_by_url(call, m) ==
    IF ~call.res[1].valid
    THEN [call |-> [call EXCEPT !.stage = "done", !.outcome = Throw("parse error")], cache |-> m]
    ELSE IF call.use_cache
    THEN [call |-> [call EXCEPT !.stage = "done", !.outcome = Value(call.res[1].data),
                                !.stored = Some(fetch_value_item(call)),
                                !.after = Some(Set(m, call.href, fetch_value_item(call)))],
          cache |-> Set(m, call.href, fetch_value_item(call))]
    ELSE [call |-> [call EXCEPT !.stage = "done", !.outcome = Value(call.res[1].data)], cache |-> m]

\* fetch_value from the settling of res.json() / res.text() to its end: the
\* call and the cache afterwards
fetch_value_read(call, m) ==
    IF ~call.res[1].valid
    THEN [call |-> [call EXCEPT !.stage = "done", !.outcome = Throw("parse error")], cache |-> m]
    ELSE IF call.use_cache
    THEN [call |-> [call EXCEPT !.stage = "done", !.outcome = Value(call.res[1].data),
                                !.stored = Some(fetch_value_item(call)),
                                !.after = Some(Set(m, call.key[1], fetch_value_item(call)))],
          cache |-> Set(m, call.key[1], fetch_value_item(call))]
    ELSE [call |-> [call EXCEPT !.stage = "done", !.outcome = Value(call.res[1].data)], cache |-> m]

\* ---- the older fetch module: fetch_data ----

RETRY_DELAY == 2      \* 1000 * 60 * 2 ms, in minutes

\* the rate limit forbids a request: `ratelimit_reset && (!ratelimit_remaining ||
\* ratelimit_remaining < 1)`
Ratelimited(remaining, reset) == reset # Null /\ (remaining = Null \/ remaining[1] < 1)

\* fetch_data up to `await fetch(url, {headers})` or to an earlier return: the
\* locals of the invocation and the module's ratelimit_reset.  `cached` is the
\* second variable of that name; the first is looked up under the url.
fetch_data(m, remaining, reset, time, url, use_cache) ==
    LET local == IF use_cache THEN Get(m, url) ELSE Null
        key == to_fetch_cache_key(url, "null", <<"get">>)
        cached == IF use_cache THEN Get(m, key) ELSE Null
        etag == IF cached = Null THEN Null ELSE cached[1].etag
        last_modified == IF cached = Null THEN Null ELSE cached[1].last_modified
        call == [fn |-> "fetch_data", url |-> url, params |-> "null",
                 request_headers |-> NoHeaders, use_cache |-> use_cache, early |-> FALSE,
                 href |-> url, key |-> Some(key), cached |-> cached, headers |-> NoHeaders,
                 stage |-> "done", requested |-> FALSE, res |-> Null, outcome |-> Null,
                 before |-> m, stored |-> Null, after |-> Null]
    IN IF local # Null
       THEN [call |-> [call EXCEPT !.outcome = Value(local[1].data)], reset |-> reset]
       ELSE IF Ratelimited(remaining, reset) /\ ~(time > reset[1])
       THEN [call |-> [call EXCEPT !.outcome = Failed(429, <<"rate limited">>)], reset |-> reset]
       ELSE [call |-> [call EXCEPT !.headers = [if_none_match |-> etag, if_modified_since |-> last_modified],
                                   !.stage = "fetching", !.requested = TRUE],
             reset |-> IF Ratelimited(remaining, reset) THEN Null ELSE reset]

\* `Number(h['x-ratelimit-remaining']) || -1`
NumberOr(x) == IF x = Null \/ x[1] = 0 THEN -1 ELSE x[1]
Min(a, b) == IF a < b THEN a ELSE b
\* `if (!ratelimit_reset || ratelimit_reset < updated) ratelimit_reset = updated`
Later(reset, updated) == IF reset = Null \/ reset[1] < updated THEN Some(updated) ELSE reset

\* fetch_data from the settling of fetch to its next await or its end: the
\* call and the module's rate-limit variables; res is null when fetch rejected
fetch_data_fetched(call, remaining, reset, time, res) ==
    IF res = Null
    THEN [call |-> [call EXCEPT !.stage = "done", !.outcome = Failed(500, <<"network error">>)],
          remaining |-> remaining, reset |-> reset]
    ELSE LET r == res[1]
             rem == IF r.x_ratelimit_remaining # Null \/ r.x_ratelimit_reset # Null
                    THEN Some(IF remaining = Null THEN NumberOr(r.x_ratelimit_remaining)
                              ELSE Min(NumberOr(r.x_ratelimit_remaining), remaining[1]))
                    ELSE IF r.status = 429 THEN Some(0) ELSE remaining
             rst == IF r.x_ratelimit_remaining # Null \/ r.x_ratelimit_reset # Null
                    THEN Later(reset, IF r.x_ratelimit_reset # Null THEN r.x_ratelimit_reset[1]
                                      ELSE time + RETRY_DELAY)
                    ELSE IF r.status = 429 THEN Later(reset, time + RETRY_DELAY) ELSE reset
         IN [call |-> IF ~Ok(r.status)
                      THEN [call EXCEPT !.stage = "done", !.res = res,
                                        !.outcome = Failed(r.status, r.statusText)]
                      ELSE [call EXCEPT !.stage = "reading", !.res = res],
             remaining |-> rem, reset |-> rst]

\* the Fetch_Cache_Item fetch_data stores
fetch_data_item(call) ==
    [key |-> call.key[1], url |-> call.url, params |-> "null",
     data |-> call.res[1].data, etag |-> call.res[1].etag,
     last_modified |-> call.res[1].last_modified]

\* fetch_data from the settling of res.json() to its end: the call and the
\* cache afterwards
fetch_data_read(call, m) ==
    IF ~call.res[1].valid
    THEN [call |-> [call EXCEPT !.stage = "done", !.outcome = Throw("parse error")], cache |-> m]
    ELSE IF call.use_cache
    THEN [call |-> [call EXCEPT !.stage = "done", !.outcome = Value(call.res[1].data),
                                !.stored = Some(fetch_data_item(call)),
                                !.after = Some(Set(m, call.key[1], fetch_data_item(call)))],
          cache |-> Set(m, call.key[1], fetch_data_item(call))]
    ELSE [call |-> [call EXCEPT !.stage = "done", !.outcome = Value(call.res[1].data)], cache |-> m]

\* ---- the cache as text ----
\* a JavaScript value as JSON sees it: null, a string, an object, or undefined
JsonNull == [t |-> "null", v |-> <<>>]
JsonUndefined == [t |-> "undefined", v |-> <<>>]
JsonString(text) == [t |-> "string", v |-> text]
JsonObject(name) == [t |-> "object", v |-> <<name>>]

\* the properties of a Fetch_Cache_Item, in the order its literal is written, as
\* such values: key and url are strings, etag and last_modified are strings or
\* null, params and data are anything
Properties(item) ==
    LET any(x) == IF x = "undefined" THEN JsonUndefined
                  ELSE IF x = "null" THEN JsonNull ELSE JsonObject(x)
        nullable(x) == IF x = Null THEN JsonNull ELSE JsonString(x)
    IN <<[name |-> "key", value |-> JsonString(item.key)],
         [name |-> "url", value |-> JsonString(item.url)],
         [name |-> "params", value |-> any(item.params)],
         [name |-> "data", value |-> any(item.data)],
         [name |-> "etag", value |-> nullable(item.etag)],
         [name |-> "last_modified", value |-> nullable(item.last_modified)]>>

\* the property `name` of an object given by its properties
Property(props, name) ==
    IF \E i \in 1..Len(props) : props[i].name = name
    THEN props[CHOOSE i \in 1..Len(props) : props[i].name = name].value
    ELSE JsonUndefined

\* JSON.stringify of a value
stringify(value) ==
    IF value.t = "null" THEN <<"null">>
    ELSE IF value.t = "string" THEN <<"\"">> \o value.v \o <<"\"">>
    ELSE <<"{">> \o value.v \o <<"}">>

\* JSON.parse of the text of a value
parse(text) ==
    IF text = <<"null">> THEN JsonNull
    ELSE IF text[1] = "\"" THEN JsonString(SubSeq(text, 2, Len(text) - 1))
    ELSE JsonObject(text[2])

\* JSON.stringify of an object: a property whose value is undefined is left out
stringify_object(props) ==
    LET written == SelectSeq(props, LAMBDA q : q.value.t # "undefined")
    IN [i \in 1..Len(written) |-> [name |-> written[i].name, text |-> stringify(written[i].value)]]

\* JSON.parse of the text of an object
parse_object(text) ==
    [i \in 1..Len(text) |-> [name |-> text[i].name, value |-> parse(text[i].text)]]

\* the zod schema Fetch_Cache_Item, and the one of the older module, which has
\* no last_modified
Fetch_Cache_Item ==
    <<[name |-> "key", type |-> "string"], [name |-> "url", type |-> "string"],
      [name |-> "params", type |-> "any"], [name |-> "data", type |-> "any"],
      [name |-> "etag", type |-> "nullable"], [name |-> "last_modified", type |-> "nullable"]>>
Fetch_Cache_Item_old ==
    <<[name |-> "url", type |-> "string"], [name |-> "params", type |-> "any"],
      [name |-> "key", type |-> "string"], [name |-> "etag", type |-> "nullable"],
      [name |-> "data", type |-> "any"]>>

\* whether a value passes z.string(), z.string().nullable(), z.any()
Accepts(type, value) ==
    IF type = "string" THEN value.t = "string"
    ELSE IF type = "nullable" THEN value.t \in {"string", "null"}
    ELSE TRUE

\* schema.parse(v): throws unless every field passes, and returns an object
\* with the fields of the schema only
schema_parse(schema, props) ==
    IF \A i \in 1..Len(schema) : Accepts(schema[i].type, Property(props, schema[i].name))
    THEN Some(SelectSeq([i \in 1..Len(schema) |->
                            [name |-> schema[i].name, value |-> Property(props, schema[i].name)]],
                        LAMBDA q : q.value.t # "undefined"))
    ELSE Null

\* Array.from(cache.values())
RECURSIVE Values(_)
Values(m) ==
    IF DOMAIN m = {} THEN <<>>
    ELSE LET k == CHOOSE x \in DOMAIN m : TRUE
         IN <<m[k]>> \o Values([x \in DOMAIN m \ {k} |-> m[x]])

\* new Map(parsed.map((v) => [v.key, v]))
RECURSIVE NewMap(_, _)
NewMap(parsed, m) ==
    IF parsed = <<>> THEN m
    ELSE NewMap(Tail(parsed), Set(m, Property(Head(parsed), "key").v, Head(parsed)))

serialize_cache(m) ==
    LET values == Values(m)
    IN [i \in 1..Len(values) |-> stringify_object(Properties(values[i]))]

\* deserialize_cache with the schema given; `threw` when an item fails it
Deserialize(serialized, schema) ==
    LET parsed == [i \in 1..Len(serialized) |-> schema_parse(schema, parse_object(serialized[i]))]
    IN IF \E i \in 1..Len(parsed) : parsed[i] = Null
       THEN [threw |-> TRUE, map |-> EmptyMap]
       ELSE [threw |-> FALSE, map |-> NewMap([i \in 1..Len(parsed) |-> parsed[i][1]], EmptyMap)]

deserialize_cache(serialized) == Deserialize(serialized, Fetch_Cache_Item)

\* deserialize_cache of the older module
deserialize_cache_old(serialized) == Deserialize(serialized, Fetch_Cache_Item_old)

\* ---- the state transition ----
Commit(t) ==
    /\ children' = t.children
    /\ global_spawn' = t.global_spawn
    /\ promises' = t.promises
    /\ microtasks' = t.microtasks
    /\ spawned' = t.spawned
    /\ restarting' = t.restarting
    /\ log' = t.log
    /\ exited' = t.exited
    /\ UNCHANGED FetchVars

\* Client code runs in a fresh task (the microtask queue is empty), right after
\* another call of the same task, or as the continuation of a promise that
\* restart() or kill() returned.  No other client code sits in the microtask
\* queue between the continuations of the module.
CanCall == ~exited /\ (running \/ microtasks = <<>>)

Hist == <<created, calls, despawns, drains, regs, outs>>

NumUserSpawns == Cardinality({c \in 1..Len(children) : ~children[c].rp})

\* the client calls spawn_process (or spawn) itself
UserSpawn ==
    /\ CanCall
    /\ NumUserSpawns < MaxSpawns
    /\ Commit(spawn_process(St, FALSE))
    /\ running' = (microtasks' # <<>>)
    /\ UNCHANGED Hist

\* the OS reports that child c has closed
CloseEvent(c, report) ==
    /\ ~exited
    /\ microtasks = <<>>
    /\ children[c].live
    /\ Commit(emit_close(St, c, report[1], report[2]))
    /\ running' = FALSE
    /\ UNCHANGED Hist

\* the client calls spawn_out, of this module or of the older one
SpawnOut(old) ==
    /\ CanCall
    /\ Len(outs) < MaxOuts
    /\ LET t == IF old THEN spawn_out_old(St) ELSE spawn_out(St)
       IN /\ Commit(t)
          /\ outs' = Append(outs, [child |-> Len(t.children), p |-> t.ret, old |-> old])
    /\ running' = (microtasks' # <<>>)
    /\ UNCHANGED <<created, calls, despawns, drains, regs>>

\* the chunks a child writes
Chunks == {<<"a">>, <<"b", "c">>}
Streams == {"stdout", "stderr"}

RECURSIVE NumChunks(_)
NumChunks(cs) == IF cs = <<>> THEN 0 ELSE Len(Head(cs).chunks) + NumChunks(Tail(cs))

\* a pipe of child c delivers a chunk
DataEvent(c, stream, data) ==
    /\ ~exited
    /\ microtasks = <<>>
    /\ children[c].live /\ children[c].stdio = "pipe"
    /\ NumChunks(children) < MaxChunks
    /\ Commit(on_data(St, c, stream, data))
    /\ running' = FALSE
    /\ UNCHANGED Hist

\* history: the log entries a call wrote
NewLog(t) == SubSeq(t.log, Len(log) + 1, Len(t.log))

\* the client calls register_global_spawn(child) on a child it holds
UserRegister(c) ==
    /\ CanCall
    /\ Len(regs) < MaxRegisters
    /\ LET t == register_global_spawn(St, c)
       IN /\ Commit(t)
          /\ regs' = Append(regs, [op |-> "register", child |-> c, fn |-> Len(regs) + 1,
                                   had |-> SeqHas(global_spawn, c),
                                   before |-> global_spawn, after |-> t.global_spawn,
                                   logged |-> NewLog(t)])
    /\ running' = (microtasks' # <<>>)
    /\ UNCHANGED <<created, calls, despawns, drains, outs>>

\* the client calls the function that its k-th call, a register_global_spawn, returned
UserUnregister(k) ==
    /\ CanCall
    /\ Len(regs) < MaxRegisters
    /\ regs[k].op = "register"
    /\ LET c == regs[k].child
           t == unregister(St, c)
       IN /\ Commit(t)
          /\ regs' = Append(regs, [op |-> "unregister", child |-> c, fn |-> k,
                                   had |-> SeqHas(global_spawn, c),
                                   before |-> global_spawn, after |-> t.global_spawn,
                                   logged |-> NewLog(t)])
    /\ running' = (microtasks' # <<>>)
    /\ UNCHANGED <<created, calls, despawns, drains, outs>>

\* the client calls despawn(child) on a child it holds
UserDespawn(c) ==
    /\ CanCall
    /\ Len(despawns) + Len(drains) < MaxDespawns
    /\ LET t == despawn(St, c)
       IN /\ Commit(t)
          /\ despawns' = Append(despawns, [child |-> c, p |-> t.ret, live |-> children[c].live,
                                           before |-> global_spawn, after |-> t.global_spawn,
                                           signals |-> t.children[c].kills - children[c].kills])
    /\ running' = (microtasks' # <<>>)
    /\ UNCHANGED <<created, calls, drains, regs, outs>>

\* the client calls despawn_all()
UserDespawnAll ==
    /\ CanCall
    /\ Len(despawns) + Len(drains) < MaxDespawns
    /\ LET t == despawn_all(St)
       IN /\ Commit(t)
          /\ drains' = Append(drains, [kind |-> "despawn_all", own |-> t.ret, all |-> t.ret,
                                       snapshot |-> global_spawn, after |-> t.global_spawn])
    /\ running' = (microtasks' # <<>>)
    /\ UNCHANGED <<created, calls, despawns, regs, outs>>

\* history: the promises a drain created for its despawns, between its first
\* promise and the one of Promise.all
Issued(first, all) == [i \in 1..(all - first) |-> first + i - 1]

\* history: one run of the fatal-error path
FatalDrain(t, cond, value, old) ==
    [kind |-> IF old THEN "fatal_exit" ELSE "fatal", own |-> t.ret, all |-> Len(t.promises),
     snapshot |-> global_spawn, after |-> t.global_spawn,
     cond |-> cond, value |-> value, logged |-> Len(log) + 1, sent |-> SumKills(children),
     issued |-> Issued(t.ret + 1, Len(t.promises))]

\* 'uncaughtException' is emitted on the host process with an Error;
\* `old` is TRUE for the handler of the older module
FatalError(old) ==
    /\ CanCall
    /\ Len(drains) < MaxFatal
    /\ LET t == handle_fatal_error(St, AnError, "uncaughtException", old)
       IN /\ Commit(t)
          /\ drains' = Append(drains, FatalDrain(t, "uncaughtException", AnError, old))
    /\ running' = FALSE
    /\ UNCHANGED <<created, calls, despawns, regs, outs>>

\* what a promise can be rejected with: an Error, or a value that is not one
Rejections == {AnError, [isError |-> FALSE, message |-> "boom"]}
\* the to_error_label option: absent, or a function returning this label
Labels == {Null, Some("task")}

\* 'unhandledRejection' is emitted on the host process
UnhandledRejection(err, to_error_label, old) ==
    /\ CanCall
    /\ Len(drains) < MaxFatal
    /\ LET t == handle_unhandled_rejection(St, err, to_error_label, old)
       IN /\ Commit(t)
          /\ drains' = Append(drains, FatalDrain(t, "unhandledRejection", err, old))
    /\ running' = FALSE
    /\ UNCHANGED <<created, calls, despawns, regs, outs>>

\* spawn_restartable_process(...): `void restart()` and return
SpawnRestartable ==
    /\ CanCall
    /\ ~created
    /\ Commit(restart(St))
    /\ created' = TRUE
    /\ running' = (microtasks' # <<>>)
    /\ UNCHANGED <<calls, despawns, drains, regs, outs>>

\* history: the earlier calls whose promise is still pending
OpenCalls == {i \in 1..Len(calls) : promises[calls[i].p].state = "pending"}

\* `spawned` holds a child that has not reported close
HasRunningChild == spawned # 0 /\ children[spawned].live

\* history: the synchronous part of a call signalled or spawned a child, or
\* wrote `spawned` or `restarting`
Acted(t) ==
    \/ t.children # children
    \/ t.spawned # spawned
    \/ t.restarting # restarting

\* the client calls restart(); it may continue when the returned promise settles
CallRestart ==
    /\ CanCall
    /\ created
    /\ Len(calls) < MaxCalls
    /\ LET t == restart(St)
       IN /\ Commit(Then(t, t.ret, Job("client", t.ret, 0)))
          /\ calls' = Append(calls, [op |-> "restart", p |-> t.ret, spawned |-> spawned,
                                     restarting |-> restarting, open |-> OpenCalls,
                                     live |-> HasRunningChild,
                                     acted |-> Acted(t), first |-> FALSE])
    /\ running' = (microtasks' # <<>>)
    /\ UNCHANGED <<created, despawns, drains, regs, outs>>

\* nothing has happened since spawn_restartable_process returned
JustCreated ==
    /\ created
    /\ Len(children) = 1 /\ children[1].live /\ children[1].kills = 0
    /\ calls = <<>> /\ despawns = <<>> /\ drains = <<>>

\* the client calls kill(); it may continue when the returned promise settles
CallKill ==
    /\ CanCall
    /\ created
    /\ Len(calls) < MaxCalls
    /\ LET t == kill(St)
       IN /\ Commit(Then(t, t.ret, Job("client", t.ret, 0)))
          /\ calls' = Append(calls, [op |-> "kill", p |-> t.ret, spawned |-> spawned,
                                     restarting |-> restarting, open |-> OpenCalls,
                                     live |-> HasRunningChild,
                                     acted |-> Acted(t), first |-> JustCreated])
    /\ running' = (microtasks' # <<>>)
    /\ UNCHANGED <<created, despawns, drains, regs, outs>>

\* ---- the client of the fetch module and the network ----
Urls == {<<"https://a">>}
Params == {"undefined", "q"}
\* the client sets no conditional header of its own
RequestHeaders == {NoHeaders}
\* the options `cache` and `return_early_from_cache`: the latter only with a cache
CacheModes == {<<FALSE, FALSE>>, <<TRUE, FALSE>>, <<TRUE, TRUE>>}

Response(status, etag, last_modified, valid, data) ==
    Some([status |-> status, statusText |-> <<"status", status>>, etag |-> etag,
          last_modified |-> last_modified, valid |-> valid, data |-> data])

\* what fetch(req) can settle with; null stands for a rejection
Responses ==
    {Null,
     Response(429, Null, Null, TRUE, "d1"),
     Response(404, Null, Null, TRUE, "d1"),
     Response(304, Some("e1"), Null, TRUE, "d1"),
     Response(200, Some("e1"), Some("m1"), TRUE, "d1"),
     Response(200, Null, Some("m1"), TRUE, "d2"),
     Response(200, Null, Null, FALSE, "d1")}

\* the client calls fetch_value(url, {params, request, cache, return_early_from_cache})
CallFetchValue(url, params, request_headers, use_cache, early) ==
    /\ Len(fetches) < MaxFetches
    /\ fetches' = Append(fetches, fetch_value(cache, url, params, request_headers, use_cache, early))
    /\ UNCHANGED <<cache, RateVars, ProcVars, saves>>

\* fetch(req) of call i settles
FetchValueFetched(i, res) ==
    /\ fetches[i].fn = "fetch_value" /\ fetches[i].stage = "fetching"
    /\ fetches' = [fetches EXCEPT ![i] = fetch_value_fetched(@, res)]
    /\ UNCHANGED <<cache, RateVars, ProcVars, saves>>

\* the body of the response of call i has been read
FetchValueRead(i) ==
    /\ fetches[i].fn = "fetch_value" /\ fetches[i].stage = "reading"
    /\ LET r == fetch_value_read(fetches[i], cache)
       IN /\ fetches' = [fetches EXCEPT ![i] = r.call]
          /\ cache' = r.cache
    /\ UNCHANGED <<RateVars, ProcVars, saves>>

\* a response with rate-limit headers
Limited(res, remaining, reset) ==
    Some([x_ratelimit_remaining |-> remaining, x_ratelimit_reset |-> reset] @@ res[1])

\* what fetch(url) can settle with for fetch_data; null stands for a rejection
DataResponses ==
    {Null,
     Limited(Response(429, Null, Null, TRUE, "d1"), Null, Null),
     Limited(Response(404, Null, Null, TRUE, "d1"), Some(0), Some(2)),
     Limited(Response(200, Some("e1"), Some("m1"), TRUE, "d1"), Null, Null),
     Limited(Response(200, Null, Null, TRUE, "d2"), Some(1), Null),
     Limited(Response(200, Null, Null, FALSE, "d1"), Null, Null)}

\* the client calls fetch_data(url, {cache})
CallFetchData(url, use_cache) ==
    /\ Len(fetches) < MaxFetches
    /\ LET r == fetch_data(cache, ratelimit_remaining, ratelimit_reset, now, url, use_cache)
       IN /\ fetches' = Append(fetches, r.call)
          /\ ratelimit_reset' = r.reset
    /\ UNCHANGED <<cache, ratelimit_remaining, now, ProcVars, saves>>

\* fetch(url) of call i settles
FetchDataFetched(i, res) ==
    /\ fetches[i].fn = "fetch_data" /\ fetches[i].stage = "fetching"
    /\ LET r == fetch_data_fetched(fetches[i], ratelimit_remaining, ratelimit_reset, now, res)
       IN /\ fetches' = [fetches EXCEPT ![i] = r.call]
          /\ ratelimit_remaining' = r.remaining
          /\ ratelimit_reset' = r.reset
    /\ UNCHANGED <<cache, now, ProcVars, saves>>

\* the body of the response of call i has been read
FetchDataRead(i) ==
    /\ fetches[i].fn = "fetch_data" /\ fetches[i].stage = "reading"
    /\ LET r == fetch_data_read(fetches[i], cache)
       IN /\ fetches' = [fetches EXCEPT ![i] = r.call]
          /\ cache' = r.cache
    /\ UNCHANGED <<RateVars, ProcVars, saves>>

\* a minute passes
Tick ==
    /\ now < MaxTime
    /\ now' = now + 1
    /\ UNCHANGED <<cache, fetches, ratelimit_remaining, ratelimit_reset, ProcVars, saves>>

\* the client saves its cache
SerializeCache ==
    /\ Len(saves) < MaxSaves
    /\ saves' = Append(saves, [cache |-> cache, serialized |-> serialize_cache(cache),
                                read |-> FALSE, old |-> FALSE,
                                restored |-> [threw |-> FALSE, map |-> EmptyMap]])
    /\ UNCHANGED <<cache, fetches, RateVars, ProcVars>>

\* the client reads a saved text back, with either module
DeserializeCache(i, old) ==
    /\ ~saves[i].read
    /\ saves' = [saves EXCEPT ![i].read = TRUE, ![i].old = old,
                              ![i].restored = IF old THEN deserialize_cache_old(saves[i].serialized)
                                              ELSE deserialize_cache(saves[i].serialized)]
    /\ UNCHANGED <<cache, fetches, RateVars, ProcVars>>

\* ---- microtasks: the head of the queue runs when no client code is on the stack ----
HeadIs(type) == ~exited /\ microtasks # <<>> /\ Head(microtasks).type = type
Popped == [St EXCEPT !.microtasks = Tail(@)]

RunCloseCont ==
    /\ HeadIs("close_cont")
    /\ Commit(close_cont(Popped, Head(microtasks).p))
    /\ running' = FALSE
    /\ UNCHANGED Hist

RunRestartCont ==
    /\ HeadIs("restart_cont")
    /\ Commit(restart_spawn(Popped, Head(microtasks).p))
    /\ running' = FALSE
    /\ UNCHANGED Hist

RunKillCont ==
    /\ HeadIs("kill_cont")
    /\ Commit(kill_close(Popped, Head(microtasks).p))
    /\ running' = FALSE
    /\ UNCHANGED Hist

RunKillDone ==
    /\ HeadIs("kill_done")
    /\ Commit(Resolve(Popped, Head(microtasks).p, Undefined))
    /\ running' = FALSE
    /\ UNCHANGED Hist

\* NewPromiseResolveThenableJob: source.then(resolve of target)
RunThenable ==
    /\ HeadIs("thenable")
    /\ Commit(Then(Popped, Head(microtasks).q, Job("settle", Head(microtasks).p, 0)))
    /\ running' = FALSE
    /\ UNCHANGED Hist

RunSettle ==
    /\ HeadIs("settle")
    /\ Commit(Resolve(Popped, Head(microtasks).p, Head(microtasks).arg))
    /\ running' = FALSE
    /\ UNCHANGED Hist

RunAllElement ==
    /\ HeadIs("all_element")
    /\ Commit(all_element(Popped, Head(microtasks).p, Head(microtasks).q, Head(microtasks).arg))
    /\ running' = FALSE
    /\ UNCHANGED Hist

RunSpawnOutCont ==
    /\ HeadIs("spawn_out_cont")
    /\ Commit(spawn_out_cont(Popped, Head(microtasks).p, Head(microtasks).q, Head(microtasks).arg.items[1]))
    /\ running' = FALSE
    /\ UNCHANGED Hist

\* handle_fatal_error after `await despawn_all()`
RunFatalCont ==
    /\ HeadIs("fatal_cont")
    /\ Commit(Resolve(Popped, Head(microtasks).p, Undefined))
    /\ running' = FALSE
    /\ UNCHANGED Hist

\* handleFatalError of the older module after its await: process.exit(1)
RunFatalExit ==
    /\ HeadIs("fatal_exit")
    /\ Commit([Popped EXCEPT !.exited = TRUE])
    /\ running' = FALSE
    /\ UNCHANGED Hist

\* the client's continuation on a promise returned by restart() or kill()
RunClient ==
    /\ HeadIs("client")
    /\ Commit(Popped)
    /\ running' = (microtasks' # <<>>)
    /\ UNCHANGED Hist

Init ==
    /\ children = <<>>
    /\ global_spawn = <<>>
    /\ promises = <<>>
    /\ microtasks = <<>>
    /\ spawned = 0
    /\ restarting = 0
    /\ log = <<>>
    /\ created = FALSE
    /\ running = FALSE
    /\ exited = FALSE
    /\ calls = <<>>
    /\ despawns = <<>>
    /\ drains = <<>>
    /\ regs = <<>>
    /\ outs = <<>>
    /\ cache = EmptyMap
    /\ fetches = <<>>
    /\ ratelimit_remaining = Null
    /\ ratelimit_reset = Null
    /\ now = 0
    /\ saves = <<>>

\* the restartable process, its client and fatal errors of the host
Next ==
    \/ SpawnRestartable
    \/ CallRestart
    \/ CallKill
    \/ \E old \in BOOLEAN : FatalError(old)
    \/ \E c \in 1..Len(children), report \in SomeReports : CloseEvent(c, report)
    \/ RunCloseCont
    \/ RunRestartCont
    \/ RunKillCont
    \/ RunKillDone
    \/ RunThenable
    \/ RunSettle
    \/ RunAllElement
    \/ RunFatalCont
    \/ RunFatalExit
    \/ RunClient

Spec == Init /\ [][Next]_vars

\* the engine runs the microtask at the head of the queue
Microtask ==
    \/ RunCloseCont
    \/ RunRestartCont
    \/ RunKillCont
    \/ RunKillDone
    \/ RunThenable
    \/ RunSettle
    \/ RunClient

\* the restartable process and its client, on a host that drains its microtask
\* queue
NextRestartable ==
    \/ SpawnRestartable
    \/ CallRestart
    \/ CallKill
    \/ \E c \in 1..Len(children), report \in SomeReports : CloseEvent(c, report)
    \/ Microtask

SpecRestartable == Init /\ [][NextRestartable]_vars /\ WF_vars(Microtask)

\* the registry and its direct clients: spawn_process, despawn, despawn_all
NextRegistry ==
    \/ UserSpawn
    \/ \E c \in 1..Len(children) : UserDespawn(c)
    \/ UserDespawnAll
    \/ \E c \in 1..Len(children), report \in CloseReports : CloseEvent(c, report)
    \/ RunAllElement

SpecRegistry == Init /\ [][NextRegistry]_vars

\* a child that has been sent a signal closes
SignalledCloses ==
    \E c \in 1..Len(children), report \in SomeReports :
        /\ children[c].kills > 0
        /\ CloseEvent(c, report)

\* spawn_process and despawn alone
NextDespawn ==
    \/ UserSpawn
    \/ \E c \in 1..Len(children) : UserDespawn(c)
    \/ \E c \in 1..Len(children), report \in SomeReports : CloseEvent(c, report)

\* spawn_process and despawn with children that close once they have been
\* signalled
SpecDespawn == Init /\ [][NextDespawn]_vars /\ WF_vars(SignalledCloses)

\* fatal errors of the host while children spawned by the client are running
NextFatal ==
    \/ UserSpawn
    \/ \E old \in BOOLEAN : FatalError(old)
    \/ \E err \in Rejections, l \in Labels, old \in BOOLEAN : UnhandledRejection(err, l, old)
    \/ \E c \in 1..Len(children), report \in SomeReports : CloseEvent(c, report)
    \/ RunAllElement
    \/ RunFatalCont
    \/ RunFatalExit

SpecFatal == Init /\ [][NextFatal]_vars

\* a client that registers and unregisters handles itself
NextRegister ==
    \/ UserSpawn
    \/ \E c \in 1..Len(children) : UserRegister(c)
    \/ \E k \in 1..Len(regs) : UserUnregister(k)
    \/ \E c \in 1..Len(children), report \in SomeReports : CloseEvent(c, report)

SpecRegister == Init /\ [][NextRegister]_vars

\* commands run to their end with spawn_out
NextOut ==
    \/ \E old \in BOOLEAN : SpawnOut(old)
    \/ \E c \in 1..Len(children), stream \in Streams, data \in Chunks : DataEvent(c, stream, data)
    \/ \E c \in 1..Len(children), report \in SomeReports : CloseEvent(c, report)
    \/ RunSpawnOutCont

SpecOut == Init /\ [][NextOut]_vars

\* fetch_value calls sharing one cache, and the network
NextFetch ==
    \/ \E url \in Urls, params \in Params, rh \in RequestHeaders, mode \in CacheModes :
          CallFetchValue(url, params, rh, mode[1], mode[2])
    \/ \E i \in 1..Len(fetches), res \in Responses : FetchValueFetched(i, res)
    \/ \E i \in 1..Len(fetches) : FetchValueRead(i)

SpecFetch == Init /\ [][NextFetch]_vars

\* fetch_data calls sharing one cache, the network and the clock
NextFetchData ==
    \/ \E url \in Urls, use_cache \in BOOLEAN : CallFetchData(url, use_cache)
    \/ \E i \in 1..Len(fetches), res \in DataResponses : FetchDataFetched(i, res)
    \/ \E i \in 1..Len(fetches) : FetchDataRead(i)
    \/ Tick

SpecFetchData == Init /\ [][NextFetchData]_vars

\* the items a cache can hold, each with the key of its request
CacheItems ==
    {[key |-> to_fetch_cache_key(Href(url), params, <<"GET">>), url |-> Href(url), params |-> params,
      data |-> data, etag |-> etag, last_modified |-> last_modified] :
        url \in Urls, params \in {"undefined", "null", "q"}, data \in {"d1", "d2"},
        etag \in {Null, Some("e1")}, last_modified \in {Null, Some("m1")}}

\* the maps of at most MaxItems items, each stored under its own key
Caches ==
    UNION {{m \in [K -> CacheItems] : \A k \in K : m[k].key = k} :
              K \in {K \in SUBSET {item.key : item \in CacheItems} : Cardinality(K) <= MaxItems}}

\* serialize_cache and deserialize_cache on any such cache
InitCache ==
    /\ children = <<>> /\ global_spawn = <<>> /\ promises = <<>> /\ microtasks = <<>>
    /\ spawned = 0 /\ restarting = 0 /\ log = <<>>
    /\ created = FALSE /\ running = FALSE /\ exited = FALSE
    /\ calls = <<>> /\ despawns = <<>> /\ drains = <<>> /\ regs = <<>> /\ outs = <<>>
    /\ cache \in Caches
    /\ fetches = <<>>
    /\ ratelimit_remaining = Null /\ ratelimit_reset = Null /\ now = 0
    /\ saves = <<>>

NextCache ==
    \/ SerializeCache
    \/ \E i \in 1..Len(saves), old \in BOOLEAN : DeserializeCache(i, old)

SpecCache == InitCache /\ [][NextCache]_vars

\* ---- what the claims speak of ----
Fulfilled(p) == promises[p].state = "fulfilled"
Registered(c) == SeqHas(global_spawn, c)
Children == 1..Len(children)
\* the children of the restartable process that have not reported close
LiveRestartable == {c \in Children : children[c].rp /\ children[c].live}
AllJobs == {microtasks[i] : i \in 1..Len(microtasks)}
             \cup UNION {{promises[p].reactions[i] : i \in 1..Len(promises[p].reactions)} : p \in 1..Len(promises)}
\* a restart() is suspended before its spawn_process
RespawnPending == \E j \in AllJobs : j.type = "restart_cont"
Idle == LiveRestartable = {} /\ restarting = 0 /\ ~RespawnPending
\* this step fulfils promise p (which the step itself may have created)
SettlesNow(p) ==
    /\ promises'[p].state = "fulfilled"
    /\ p > Len(promises) \/ promises[p].state = "pending"

C2_KillLeavesIdle ==
    [][\A i \in 1..Len(calls') : (calls'[i].op = "kill" /\ SettlesNow(calls'[i].p)) => Idle']_vars

\* the second of two restart() calls was made while the first, which found a
\* running child, had not completed
RapidRestarts(i, j) ==
    /\ i < j
    /\ calls[i].op = "restart" /\ calls[j].op = "restart"
    /\ calls[i].live /\ calls[i].restarting = 0
    /\ i \in calls[j].open
BothSettled(i, j) == Fulfilled(calls[i].p) /\ Fulfilled(calls[j].p)

\* C3: of two restart() calls in rapid succession the second starts no
\* transition of its own, and at the step that settles the later of the two
\* futures both are fulfilled and exactly one child is live.
C3_RapidRestarts ==
    [][\A i, j \in 1..Len(calls) :
          RapidRestarts(i, j) =>
              /\ ~calls[j].acted
              /\ (~BothSettled(i, j) /\ BothSettled(i, j)') => Cardinality(LiveRestartable') = 1]_vars

\* C3 witness: both futures of two rapid restarts are fulfilled, one child live.
C3_Witness ==
    \E i, j \in 1..Len(calls) :
        RapidRestarts(i, j) /\ BothSettled(i, j) /\ Cardinality(LiveRestartable) = 1

\* C4: a kill() called right after spawn_restartable_process returned leaves
\* no live child at the step that resolves its future.
C4_KillAfterConstruction ==
    [][(calls' # <<>> /\ calls'[1].first /\ SettlesNow(calls'[1].p)) => LiveRestartable' = {}]_vars

\* C4 witness: the future of such a kill() has resolved.
C4_Witness == calls # <<>> /\ calls[1].first /\ Fulfilled(calls[1].p) /\ ~children[1].live

\* the outcome carried by a fulfilled promise of kind Spawn_Result
Outcome(p) == promises[p].value.items[1]
NoDuplicates(q) == \A i, j \in 1..Len(q) : q[i] = q[j] => i = j
Drains(kind) == {k \in 1..Len(drains) : drains[k].kind = kind}
Elems(q) == {q[i] : i \in 1..Len(q)}

\* C5: a child is in the registry if and only if it has been spawned and its
\* close has not been reported, and no despawn adds or removes a member.
C5_RegistryIffLive ==
    /\ \A c \in Children : Registered(c) <=> children[c].live
    /\ Elems(global_spawn) \subseteq Children /\ NoDuplicates(global_spawn)
    /\ \A k \in 1..Len(despawns) : despawns[k].after = despawns[k].before
    /\ \A k \in 1..Len(drains) : drains[k].after = drains[k].snapshot

\* C5 witness: a registered live child was despawned while another child had
\* already closed and left the registry.
C5_Witness ==
    /\ \E k \in 1..Len(despawns) : despawns[k].live /\ children[despawns[k].child].live
    /\ \E c \in Children : ~children[c].live /\ ~Registered(c)

\* C6: a handle is unregistered exactly once, on its close event, and `closed`
\* is never resolved while the handle is still in the registry.
C6_UnregisteredBeforeClosed ==
    /\ \A c \in Children :
          /\ Fulfilled(children[c].closed) => ~Registered(c)
          /\ children[c].unregistered = (IF children[c].live THEN 0 ELSE 1)
          /\ Fulfilled(children[c].closed) <=> ~children[c].live
    /\ \A i \in 1..Len(log) : log[i].msg # "spawn not registered"

\* C6 witness: one child has closed and is unregistered, another is still live.
C6_Witness ==
    /\ \E c \in Children : Fulfilled(children[c].closed) /\ children[c].unregistered = 1
    /\ \E c \in Children : children[c].live /\ Registered(c)

\* an outcome that is a Failure when a signal ended the child, and a Success
\* only for code 0 or for no code and no signal
SignalledIsFailure(r, code, signal) ==
    /\ (code = Null /\ signal # Null) => ~r.ok
    /\ r.ok => (code = Some(0) \/ (code = Null /\ signal = Null))

\* C7: a close with a null code and a signal gives a Failure, from `closed` and
\* from despawn; Success only for code 0 or for neither code nor signal.
C7_SignalledIsFailure ==
    /\ \A c \in Children :
          Fulfilled(children[c].closed) =>
              SignalledIsFailure(Outcome(children[c].closed), children[c].exitCode, children[c].signalCode)
    /\ \A k \in 1..Len(despawns) :
          Fulfilled(despawns[k].p) =>
              SignalledIsFailure(Outcome(despawns[k].p), children[despawns[k].child].exitCode,
                                 children[despawns[k].child].signalCode)

\* C8: `closed` resolves on close; code 0 gives Success, a non-zero code c with
\* no signal gives Failure{code = c, signal = null}, and the outcome carries
\* the code and signal the close event reported.
C8_OutcomeOfExitCode ==
    \A c \in Children :
        /\ promises[children[c].closed].state \in {"pending", "fulfilled"}
        /\ ~children[c].live =>
              /\ Fulfilled(children[c].closed)
              /\ promises[children[c].closed].value.kind = "result"
              /\ LET r == Outcome(children[c].closed)
                     code == children[c].exitCode
                     signal == children[c].signalCode
                 IN /\ r.child = c /\ r.code = code /\ r.signal = signal
                    /\ code = Some(0) => r.ok
                    /\ (Truthy(code) /\ signal = Null) => (~r.ok /\ r.code = code /\ r.signal = Null)

\* C8 witness: one child closed with code 0 and one with code 1.
C8_Witness ==
    /\ \E c \in Children : ~children[c].live /\ children[c].exitCode = Some(0)
    /\ \E c \in Children : ~children[c].live /\ children[c].exitCode = Some(1)
                              /\ children[c].signalCode = Null

\* C9: despawn_all() signals every registered child at once, resolves only
\* after each of them has closed, with one outcome per child, and with an
\* empty registry resolves at once with the empty sequence.
C9_DespawnAll ==
    \A k \in Drains("despawn_all") :
        LET d == drains[k]
            N == Len(d.snapshot)
        IN /\ \A i \in 1..N : children[d.snapshot[i]].kills >= 1
           /\ Fulfilled(d.all) =>
                 /\ \A i \in 1..N : ~children[d.snapshot[i]].live
                 /\ promises[d.all].value.kind = "array"
                 /\ Len(promises[d.all].value.items) = N
                 /\ \A i \in 1..N : promises[d.all].value.items[i].child = d.snapshot[i]
           /\ ((\A i \in 1..N : ~children[d.snapshot[i]].live) /\ microtasks = <<>>) => Fulfilled(d.all)
           /\ N = 0 => (Fulfilled(d.all) /\ promises[d.all].value = Arr(<<>>))

\* C9 witness: one despawn_all() found the registry empty, and another, on two
\* live children, has resolved with one Success and one Failure.
C9_Witness ==
    /\ \E k \in Drains("despawn_all") : drains[k].snapshot = <<>> /\ Fulfilled(drains[k].all)
    /\ \E k \in Drains("despawn_all") :
          /\ Len(drains[k].snapshot) = 2
          /\ Fulfilled(drains[k].all)
          /\ \E i, j \in 1..2 : promises[drains[k].all].value.items[i].ok
                                  /\ ~promises[drains[k].all].value.items[j].ok

NoOrphans == global_spawn = <<>> /\ \A c \in Children : ~children[c].live

\* C10: at the step that resolves the future of the fatal-error path, and at
\* the step that calls process.exit(1) in the older module, the registry is
\* empty and no spawned child is live.
C10_FatalDrainsRegistry ==
    [][/\ \A k \in Drains("fatal")' : SettlesNow(drains'[k].own) => NoOrphans'
       /\ (~exited /\ exited') => NoOrphans']_vars

FatalDrains == Drains("fatal") \cup Drains("fatal_exit")
AllFulfilled(ps) == \A i \in 1..Len(ps) : Fulfilled(ps[i])

\* C11: an uncaught exception and an unhandled rejection run the same path:
\* the fault is logged before any child is signalled, a rejection value that is
\* not an Error is logged wrapped in an Error, every registered child is then
\* despawned, and the path's future resolves, or the older module exits the
\* host, only after every despawn the drain issued has resolved.
C11_FatalPath ==
    [][/\ \A k \in FatalDrains' :
             LET d == drains'[k]
                 e == log'[d.logged]
             IN /\ e.msg = "fatal" /\ e.sent = d.sent
                /\ e.err = (IF d.value.isError THEN d.value ELSE NewError(d.value.message))
                /\ e.err.isError
                /\ Len(d.issued) = Len(d.snapshot)
                /\ \A i \in 1..Len(d.snapshot) : children'[d.snapshot[i]].kills >= 1
                /\ SettlesNow(d.own) => \A i \in 1..Len(d.issued) : SettlesNow(d.issued[i]) \/ Fulfilled(d.issued[i])
                /\ (~exited /\ exited' /\ Head(microtasks).p = d.own) => \A i \in 1..Len(d.issued) : Fulfilled(d.issued[i])
       /\ (~exited /\ exited') => \E k \in Drains("fatal_exit") : Head(microtasks).p = drains[k].own]_vars

\* C11 witness: an unhandled rejection with a value that is not an Error found
\* two children running, and the older module has exited the host.
C11_Witness ==
    /\ exited
    /\ \E k \in Drains("fatal_exit") :
          /\ drains[k].cond = "unhandledRejection" /\ ~drains[k].value.isError
          /\ Len(drains[k].snapshot) = 2
          /\ AllFulfilled(drains[k].issued)

Count(q, x) == Cardinality({i \in 1..Len(q) : q[i] = x})
Regs(op) == {k \in 1..Len(regs) : regs[k].op = op}

\* C12: register_global_spawn on a handle that is already registered returns
\* after logging exactly one warning, and the registry is as it was, with the
\* handle in it exactly once.
C12_RegisterTwice ==
    \A k \in Regs("register") :
        regs[k].had =>
            /\ Len(regs[k].logged) = 1
            /\ regs[k].logged[1].msg = "already registered global spawn"
            /\ regs[k].after = regs[k].before
            /\ Count(regs[k].after, regs[k].child) = 1

\* C12 witness: a live registered handle was registered again while another
\* handle was in the registry.
C12_Witness ==
    \E k \in Regs("register") :
        /\ regs[k].had /\ children[regs[k].child].live
        /\ Len(regs[k].before) = 2

\* C13: the function returned by register_global_spawn, called when the handle
\* is not in the registry, returns after logging exactly one warning and leaves
\* the registry, other handles included, as it was.
C13_UnregisterAbsent ==
    \A k \in Regs("unregister") :
        ~regs[k].had =>
            /\ Len(regs[k].logged) = 1
            /\ regs[k].logged[1].msg = "spawn not registered"
            /\ regs[k].after = regs[k].before

\* C13 witness: the same function was called a second time, after its first
\* call removed the handle, while another handle was registered.
C13_Witness ==
    \E j, k \in Regs("unregister") :
        /\ j < k /\ regs[j].fn = regs[k].fn
        /\ regs[j].had /\ ~regs[k].had
        /\ regs[k].before # <<>>

\* C14: despawn on a handle of spawn_process that has not closed sends it one
\* signal and touches no registry entry; its future resolves on the close, with
\* the ok tag, code and signal that `closed` resolves with, and the handle has
\* left the registry whenever that future is resolved.
C14_DespawnLive ==
    \A k \in 1..Len(despawns) :
        LET d == despawns[k]
            closed == children[d.child].closed
        IN d.live =>
              /\ d.signals = 1
              /\ d.after = d.before
              /\ Fulfilled(d.p) <=> ~children[d.child].live
              /\ Fulfilled(d.p) =>
                    /\ Fulfilled(closed)
                    /\ Outcome(d.p).ok = Outcome(closed).ok
                    /\ Outcome(d.p).code = Outcome(closed).code
                    /\ Outcome(d.p).signal = Outcome(closed).signal
                    /\ ~Registered(d.child)

\* C14 witness: a despawn of a live child has resolved with a Failure carrying
\* a code, while the other child is still registered.
C14_Witness ==
    \E k \in 1..Len(despawns) :
        /\ despawns[k].live /\ Fulfilled(despawns[k].p)
        /\ Outcome(despawns[k].p) = [ok |-> FALSE, child |-> despawns[k].child, code |-> Some(1), signal |-> Null]
        /\ \E c \in Children : Registered(c)

\* the chunks of one stream, concatenated in the order they were emitted;
\* null when the stream emitted none
RECURSIVE Joined(_, _)
Joined(chunks, stream) ==
    IF chunks = <<>> THEN Null
    ELSE IF Head(chunks).stream # stream THEN Joined(Tail(chunks), stream)
    ELSE LET rest == Joined(Tail(chunks), stream)
         IN Some(Head(chunks).data \o (IF rest = Null THEN <<>> ELSE rest[1]))

\* C15: the future of spawn_out resolves on the child's close with a bundle
\* {result, stdout, stderr}: stdout and stderr are the concatenation, in
\* emission order, of the chunks of that stream, null when there was none,
\* and result is the outcome `closed` resolves with.
C15_SpawnOut ==
    \A k \in 1..Len(outs) :
        LET c == outs[k].child
            p == outs[k].p
        IN /\ Fulfilled(p) => ~children[c].live
           /\ (~children[c].live /\ microtasks = <<>>) => Fulfilled(p)
           /\ Fulfilled(p) =>
                 /\ promises[p].value.kind = "out"
                 /\ Outcome(p).result = Outcome(children[c].closed)
                 /\ Outcome(p).stdout = Joined(children[c].chunks, "stdout")
                 /\ Outcome(p).stderr = Joined(children[c].chunks, "stderr")

\* the same for the calls of spawn_out of src/lib/process.ts alone
SpawnOutNew ==
    \A k \in 1..Len(outs) :
        (~outs[k].old /\ Fulfilled(outs[k].p)) =>
            /\ promises[outs[k].p].value.kind = "out"
            /\ Outcome(outs[k].p).result = Outcome(children[outs[k].child].closed)
            /\ Outcome(outs[k].p).stdout = Joined(children[outs[k].child].chunks, "stdout")
            /\ Outcome(outs[k].p).stderr = Joined(children[outs[k].child].chunks, "stderr")

\* C18: when spawn_restartable_process returns, exactly one child of the
\* restartable process has been spawned; it is live, unsignalled and
\* registered, `spawned` holds it, and `restarting` is null with no respawn
\* pending.
C18_FirstChildSynchronous ==
    [][(~created /\ created') =>
          /\ Len(children') = Len(children) + 1
          /\ LiveRestartable' = {Len(children')}
          /\ {c \in Children' : children'[c].rp} = {Len(children')}
          /\ children'[Len(children')].kills = 0
          /\ SeqHas(global_spawn', Len(children'))
          /\ spawned' = Len(children')
          /\ restarting' = 0
          /\ ~RespawnPending']_vars

\* C18 witness: spawn_restartable_process has just returned with its first
\* child live and registered.
C18_Witness == JustCreated /\ Registered(1) /\ spawned = 1 /\ restarting = 0

\* the calls of one function, and those that have ended
Fetches(fn) == {i \in 1..Len(fetches) : fetches[i].fn = fn}
Done(fn) == {i \in Fetches(fn) : fetches[i].stage = "done"}
\* the call got a response with this status
Got(f, status) == f.res # Null /\ f.res[1].status = status
\* the call got a response that is not ok and not a 429
GotNotOk(f) == f.res # Null /\ ~Ok(f.res[1].status) /\ f.res[1].status # 429

\* C16: a fetch_value without return_early_from_cache always makes the
\* request, sends the cached etag as if-none-match (or else the cached
\* last_modified as if-modified-since), and on a 304 with a cached entry returns
\* the cached data, not a failure, and stores nothing.
C16_Revalidates ==
    \A i \in Fetches("fetch_value") :
        LET f == fetches[i]
        IN /\ ~f.early => f.requested
           /\ (f.requested /\ f.cached # Null /\ f.cached[1].etag # Null) =>
                 f.headers.if_none_match = f.cached[1].etag
           /\ (f.requested /\ f.cached # Null /\ f.cached[1].etag = Null
                   /\ f.cached[1].last_modified # Null) =>
                 f.headers.if_modified_since = f.cached[1].last_modified
           /\ (f.stage = "done" /\ Got(f, 304) /\ f.cached # Null) =>
                 /\ f.outcome = Value(f.cached[1].data)
                 /\ f.stored = Null

KeyOf(f) ==
    (IF f.params = "undefined" THEN <<"GET">> ELSE <<"POST">>)
        \o <<"::">> \o Href(f.url) \o <<"::">> \o Json(f.params)
\* the call fetched successfully with a cache
FetchedWithCache(f) ==
    f.use_cache /\ f.requested /\ f.stage = "done" /\ f.outcome.kind = "value"

\* C19: a fetch_value with a cache and return_early_from_cache that finds an
\* entry under method::url::JSON(params) returns its data, makes no request and
\* stores nothing; a successful fetch with a cache leaves under that key an
\* entry with the parsed response, and an identical call with
\* return_early_from_cache made on that cache returns it without a request.
C19_ReturnEarly ==
    /\ \A i \in Fetches("fetch_value") :
          LET f == fetches[i]
          IN /\ (f.use_cache /\ f.early /\ KeyOf(f) \in DOMAIN f.before) =>
                   /\ f.stage = "done" /\ ~f.requested /\ f.stored = Null
                   /\ f.outcome = Value(f.before[KeyOf(f)].data)
             /\ FetchedWithCache(f) =>
                   /\ f.after # Null /\ KeyOf(f) \in DOMAIN f.after[1]
                   /\ f.after[1][KeyOf(f)].data = f.outcome.value
                   /\ f.after[1][KeyOf(f)].key = KeyOf(f)
    /\ \A i, j \in Fetches("fetch_value") :
          LET f == fetches[i]
              g == fetches[j]
          IN (FetchedWithCache(f) /\ g.use_cache /\ g.early /\ g.url = f.url /\ g.params = f.params
                 /\ f.after # Null /\ g.before = f.after[1]) =>
                (g.outcome = Value(f.outcome.value) /\ ~g.requested)

\* C19 witness: a POST fetch stored its response, and the identical call that
\* followed with return_early_from_cache has returned that data.
C19_Witness ==
    \E i, j \in Done("fetch_value") :
        /\ i < j /\ fetches[i].params = "q" /\ FetchedWithCache(fetches[i])
        /\ fetches[j].early /\ fetches[j].params = "q" /\ ~fetches[j].requested
        /\ fetches[j].before = fetches[i].after[1]
        /\ fetches[j].outcome = Value(fetches[i].outcome.value)

\* C20: once a fetch_data call with a cache has stored its result, a later
\* fetch_data call for the same url with that cache, the entry still in it,
\* returns the cached data without a request.
C20_SecondCallHitsCache ==
    \A i, j \in Fetches("fetch_data") :
        LET f == fetches[i]
            g == fetches[j]
        IN (f.stored # Null /\ g.use_cache /\ g.url = f.url
               /\ f.stored[1].key \in DOMAIN g.before) =>
              /\ ~g.requested
              /\ g.outcome = Value(g.before[f.stored[1].key].data)

\* restart() j was called while the close that kill() i started on a running
\* child was in flight: `restarting` was that child's `closed`
RestartDuringKill(i, j) ==
    /\ i < j
    /\ calls[i].op = "kill" /\ calls[i].live /\ calls[i].restarting = 0
    /\ calls[j].op = "restart" /\ calls[j].restarting # 0
    /\ calls[j].restarting = children[calls[i].spawned].closed

\* C21: a restart() called while the close started by a kill() is in flight
\* does nothing of its own and its future settles with that close; once both
\* futures have settled there is no live child and none was spawned since the
\* kill(), unless a later restart() spawned one.
C21_RestartDuringKill ==
    \A i, j \in 1..Len(calls) :
        RestartDuringKill(i, j) =>
            /\ ~calls[j].acted
            /\ Fulfilled(calls[j].p) => ~children[calls[i].spawned].live
            /\ (BothSettled(i, j) /\ \A k \in 1..Len(calls) : (k > i /\ calls[k].op = "restart") => ~calls[k].acted) =>
                  /\ LiveRestartable = {}
                  /\ \A c \in Children : children[c].rp => c <= calls[i].spawned

\* C21 witness: both futures have settled and a later restart() has started a
\* new child.
C21_Witness ==
    \E i, j, k \in 1..Len(calls) :
        /\ RestartDuringKill(i, j) /\ BothSettled(i, j)
        /\ k > j /\ calls[k].op = "restart" /\ calls[k].acted
        /\ LiveRestartable = {Len(children)} /\ Len(children) > calls[i].spawned

\* call i found in `spawned` a child that had exited on its own: it had closed
\* without ever being signalled, and no transition or call was under way
OwnExit(i) ==
    /\ calls[i].spawned # 0 /\ ~calls[i].live
    /\ children[calls[i].spawned].kills = 0
    /\ calls[i].restarting = 0 /\ calls[i].open = {}

\* C22: after the child has exited on its own, a restart() resolves, leaving
\* exactly one live child, and a kill() resolves, leaving no live child and no
\* transition in flight.
C22_AfterOwnExit ==
    /\ [][\A i \in 1..Len(calls') :
             (OwnExit(i)' /\ SettlesNow(calls'[i].p)) =>
                 IF calls'[i].op = "restart"
                 THEN Cardinality(LiveRestartable') = 1
                 ELSE Idle']_vars
    /\ \A i \in 1..MaxCalls :
          (Len(calls) >= i /\ OwnExit(i)) ~> (Len(calls) >= i /\ Fulfilled(calls[i].p))

\* C22 witness: the first child exited on its own and a restart() has resolved
\* with a new child; that child exited on its own too and a kill() has resolved.
C22_Witness ==
    /\ Len(calls) = 2 /\ OwnExit(1) /\ OwnExit(2)
    /\ calls[1].op = "restart" /\ calls[2].op = "kill"
    /\ BothSettled(1, 2) /\ Len(children) = 2 /\ Idle

\* C23: the promise of despawn(child) is resolved exactly when the child's close
\* event is emitted after the call: on a live child it eventually resolves, given
\* that signalled children close; on a child that has closed it never resolves.
C23_DespawnResolves ==
    /\ [](\A k \in 1..Len(despawns) :
             Fulfilled(despawns[k].p) <=>
                 (despawns[k].live /\ ~children[despawns[k].child].live))
    /\ []<>(\A k \in 1..Len(despawns) : despawns[k].live => Fulfilled(despawns[k].p))

\* C23 witness: one despawn on a live child has resolved, one on a child that
\* had closed is pending with every child closed.
C23_Witness ==
    /\ Len(despawns) = 2
    /\ despawns[1].live /\ Fulfilled(despawns[1].p)
    /\ ~despawns[2].live /\ ~Fulfilled(despawns[2].p)
    /\ \A c \in Children : ~children[c].live

\* the map read back has the keys of the cache saved, and under each key an item
\* with the same value in each of the six fields
RoundTrip(save) ==
    /\ ~save.restored.threw
    /\ DOMAIN save.restored.map = DOMAIN save.cache
    /\ \A k \in DOMAIN save.cache :
          \A i \in 1..6 :
              Property(save.restored.map[k], Properties(save.cache[k])[i].name)
                  = Properties(save.cache[k])[i].value

\* deserialize_cache of the current module gives back the cache
RoundTripNew == \A i \in 1..Len(saves) : (saves[i].read /\ ~saves[i].old) => RoundTrip(saves[i])

\* C24: for every cache whose items are stored under their own key,
\* deserialize_cache(serialize_cache(cache)) has the same keys and items equal
\* field for field: url, params, key, data, etag, last_modified.
C24_RoundTrip == \A i \in 1..Len(saves) : saves[i].read => RoundTrip(saves[i])
====
